---- MODULE Spec2Model ----
(***************************************************************************)
(* Model of the To-Do List CLI application: the JSON-backed user store     *)
(* (AuthManager, src/src/main.py), the interactive shell (App,             *)
(* src/src/main.py) and the TodoItem data model (src/src/models.py).       *)
(*                                                                         *)
(* Python strings that the code inspects character by character            *)
(* (str.strip, ==) are sequences of one-character strings: "a" and "A"     *)
(* are different characters, so every comparison is case-sensitive the     *)
(* way Python's == is.                                                     *)
(***************************************************************************)
EXTENDS Integers, Sequences, FiniteSets, TLC

VARIABLES
    fileExists,     \* os.path.exists(users_file)
    doc,            \* the JSON array held by users.json: a sequence of records
    am,             \* "none" before AuthManager() has run, "ready" afterwards
    last,           \* the last AuthManager call: its arguments, result and the document it found
    registered      \* history: the usernames for which register_user returned True

authVars == <<fileExists, doc, am, last, registered>>

VARIABLES
    pc,             \* where the shell is blocked: the input() it waits on, or "terminated"
    current_user,   \* App.current_user: None or a username
    entered_username, \* handle_login / handle_signup local: the stripped username
    entered_password, \* handle_signup local: the stripped password
    output,         \* the last message the shell printed
    handlerRet,     \* what handle_login / handle_signup last returned ("none" before any)
    loopRet,        \* what run_pre_login_loop returned ("running" while it loops)
    flow,           \* the handler the shell is in or was last in: "none", "login", "signup"
    calls,          \* the AuthManager operations invoked so far by that handler call
    typed           \* the line the last input() returned, before .strip()

shellVars == <<pc, current_user, entered_username, entered_password, output, handlerRet,
               loopRet, flow, calls, typed>>

VARIABLES
    race,           \* per process running register_user: its position and locals
    saves           \* history: the _save_users writes in order, each with whether the
                    \* document had changed since that process read it

raceVars == <<race, saves>>

VARIABLES
    todoItem,       \* the TodoItem in hand: <<>> or <<item>>
    todoData,       \* the dictionary in hand: <<>> or <<dict>>
    todoSource,     \* where todoData came from: "none", "to_dict" or "external"
    todoResult      \* the outcome of the last from_dict: <<>> or <<outcome>>

todoVars == <<todoItem, todoData, todoSource, todoResult>>

vars == <<authVars, shellVars, raceVars, todoVars>>

----------------------------------------------------------------------------
(* Bounds and input sets *)

\* register_user appends only while the document holds fewer records than this
MaxUsers == 3

\* usernames handed to the AuthManager API: a case pair, the empty string, one more
Usernames == { <<"a">>, <<"A">>, <<>>, <<"b">> }

\* passwords handed to the AuthManager API: a case pair and one more
Passwords == { <<"p">>, <<"P">>, <<"q">> }

NoArg == <<"-">>

\* Python's None: not a string (every element of a string is one character)
None == <<"None">>

\* lines typed at the menu prompt, the username prompts and the password prompts
MenuLines == { <<"1">>, <<"2">>, <<"3">>, <<" ", "1">>, <<"2", " ">>, <<"x">>, <<>> }
UsernameLines == { <<>>, <<" ">>, <<"a">>, <<" ", "a", " ">>, <<"A">>, <<"b">> }
PasswordLines == { <<>>, <<" ", " ">>, <<"p">>, <<"p", " ">>, <<"q">> }

----------------------------------------------------------------------------
(* AuthManager *)

\* {"username": username, "password": password}
UserRecord(username, password) == [username |-> username, password |-> password]

\* json.load of the document: the list of user dictionaries it holds
load_users == doc

\* faulty variant of save_users: the new record is added to the document as it is now
save_users_merge(users) == Append(doc, users[Len(users)])

\* _save_users: the document after json.dump(users) has overwritten it whole
save_users(users) == users

\* faulty variant of user_exists: the scan stops after the first record
user_exists_first_only(username) ==
    LET users == load_users
    IN  users # <<>> /\ users[1].username = username

\* any(user["username"] == username for user in users)
user_exists(username) ==
    LET users == load_users
    IN  \E i \in 1..Len(users) : users[i].username = username

\* faulty variant of authenticate: the two fields are matched independently of each other
authenticate_any_fields(username, password) ==
    LET users == load_users
    IN  /\ \E i \in 1..Len(users) : users[i].username = username
        /\ \E i \in 1..Len(users) : users[i].password = password

\* the for loop over users: True at the first record matching both fields
authenticate(username, password) ==
    LET users == load_users
    IN  \E i \in 1..Len(users) :
            users[i].username = username /\ users[i].password = password

\* faulty variant of register_user: the existence check is missing
register_user_unchecked(username, password) ==
    [ret |-> TRUE, saved |-> TRUE,
     users |-> Append(load_users, UserRecord(username, password))]

\* faulty variant of register_user: an existing record takes the new password
register_user_overwrite(username, password) ==
    IF user_exists(username)
    THEN [ret |-> FALSE, saved |-> TRUE,
          users |-> [i \in 1..Len(doc) |->
                        IF doc[i].username = username
                        THEN UserRecord(username, password)
                        ELSE doc[i]]]
    ELSE [ret |-> TRUE, saved |-> TRUE,
          users |-> Append(load_users, UserRecord(username, password))]

\* faulty variant of register_user: the new record is inserted at the front
register_user_prepend(username, password) ==
    IF user_exists(username)
    THEN [ret |-> FALSE, saved |-> FALSE, users |-> doc]
    ELSE [ret |-> TRUE, saved |-> TRUE,
          users |-> <<UserRecord(username, password)>> \o load_users]

\* register_user: its return value and the list it hands to _save_users
\* (saved = FALSE when it returns before _save_users)
register_user(username, password) ==
    IF user_exists(username)
    THEN [ret |-> FALSE, saved |-> FALSE, users |-> doc]
    ELSE [ret |-> TRUE, saved |-> TRUE,
          users |-> Append(load_users, UserRecord(username, password))]

\* AuthManager.__init__: _ensure_users_file writes [] only when the file is absent
Construct ==
    /\ fileExists' = TRUE
    /\ doc' = IF fileExists THEN doc ELSE <<>>
    /\ am' = "ready"
    /\ last' = [op |-> "construct", username |-> NoArg, password |-> NoArg,
                ret |-> TRUE, before |-> doc, existed |-> fileExists,
                known |-> FALSE]
    /\ UNCHANGED <<registered, shellVars, raceVars, todoVars>>

UserExists(username) ==
    /\ am = "ready"
    /\ last' = [op |-> "user_exists", username |-> username, password |-> NoArg,
                ret |-> user_exists(username), before |-> doc, existed |-> fileExists,
                known |-> username \in registered]
    /\ UNCHANGED <<fileExists, doc, am, registered, shellVars, raceVars, todoVars>>

Authenticate(username, password) ==
    /\ am = "ready"
    /\ last' = [op |-> "authenticate", username |-> username, password |-> password,
                ret |-> authenticate(username, password), before |-> doc,
                existed |-> fileExists, known |-> username \in registered]
    /\ UNCHANGED <<fileExists, doc, am, registered, shellVars, raceVars, todoVars>>

RegisterUser(username, password) ==
    /\ am = "ready"
    /\ LET r == register_user(username, password)
       IN  /\ Len(r.users) <= MaxUsers
           /\ doc' = IF r.saved THEN save_users(r.users) ELSE doc
           /\ last' = [op |-> "register_user", username |-> username,
                       password |-> password, ret |-> r.ret, before |-> doc,
                       existed |-> fileExists, known |-> username \in registered]
           /\ registered' = IF r.ret THEN registered \cup {username} ELSE registered
    /\ UNCHANGED <<fileExists, am, shellVars, raceVars, todoVars>>

----------------------------------------------------------------------------
(* App: the interactive shell.  The shell blocks at every input(); one      *)
(* action is the code that runs from one input() returning to the next      *)
(* input() being reached (or to the process ending).                        *)

Whitespace == { " ", "\t", "\n" }

RECURSIVE lstrip(_)
lstrip(s) == IF s # <<>> /\ Head(s) \in Whitespace THEN lstrip(Tail(s)) ELSE s

RECURSIVE rstrip(_)
rstrip(s) ==
    IF s # <<>> /\ s[Len(s)] \in Whitespace
    THEN rstrip(SubSeq(s, 1, Len(s) - 1))
    ELSE s

\* str.strip(): leading and trailing whitespace removed
strip(s) == rstrip(lstrip(s))

\* a handler returned False: back in run_pre_login_loop's while True, at the menu prompt
BackToMenu(message) ==
    /\ output' = message
    /\ handlerRet' = "False"
    /\ pc' = "menu"

\* main(): App() builds an AuthManager (which ensures the file), current_user = None,
\* then run() enters run_pre_login_loop and blocks at "Choose an option: "
Main ==
    /\ pc \in {"off", "terminated"}
    /\ fileExists' = TRUE
    /\ doc' = IF fileExists THEN doc ELSE <<>>
    /\ am' = "ready"
    /\ current_user' = None
    /\ entered_username' = None
    /\ entered_password' = None
    /\ output' = "[1] Login [2] Sign Up [3] Exit"
    /\ handlerRet' = "none"
    /\ loopRet' = "running"
    /\ flow' = "none"
    /\ calls' = <<>>
    /\ typed' = None
    /\ pc' = "menu"
    /\ UNCHANGED <<last, registered, raceVars, todoVars>>

\* run_pre_login_loop: one pass of the while loop up to the handler's first input()
MenuChoice(line) ==
    /\ pc = "menu"
    /\ typed' = line
    /\ LET choice == strip(line)
       IN  CASE choice = <<"1">> ->
                    /\ pc' = "login_username"
                    /\ flow' = "login"
                    /\ calls' = <<>>
                    /\ output' = "--- Login ---"
                    /\ UNCHANGED <<loopRet, handlerRet>>
             [] choice = <<"2">> ->
                    /\ pc' = "signup_username"
                    /\ flow' = "signup"
                    /\ calls' = <<>>
                    /\ output' = "--- Sign Up ---"
                    /\ UNCHANGED <<loopRet, handlerRet>>
             [] choice = <<"3">> ->
                    /\ pc' = "terminated"
                    /\ loopRet' = "False"
                    /\ output' = "Goodbye!"
                    /\ UNCHANGED <<flow, calls, handlerRet>>
             [] OTHER ->
                    /\ pc' = "menu"
                    /\ output' = "Invalid choice. Please select 1, 2, or 3."
                    /\ UNCHANGED <<loopRet, flow, calls, handlerRet>>
    /\ UNCHANGED <<raceVars, todoVars, authVars, current_user, entered_username,
                   entered_password>>

\* handle_login, lines 121-127
LoginUsername(line) ==
    /\ pc = "login_username"
    /\ typed' = line
    /\ entered_username' = strip(line)
    /\ IF entered_username' = <<>>
       THEN BackToMenu("Username cannot be empty.")
       ELSE /\ pc' = "login_password"
            /\ UNCHANGED <<output, handlerRet>>
    /\ UNCHANGED <<raceVars, todoVars, authVars, current_user, entered_password,
                   loopRet, flow, calls>>

\* faulty variant of LoginPassword: the empty password is not rejected
LoginPassword_no_empty_check(line) ==
    /\ pc = "login_password"
    /\ typed' = line
    /\ entered_password' = strip(line)
    /\ calls' = Append(calls, "authenticate")
    /\ IF authenticate(entered_username, entered_password')
       THEN /\ current_user' = entered_username
            /\ output' = "Welcome"
            /\ handlerRet' = "True"
            /\ loopRet' = "True"
            /\ pc' = "main_loop"
       ELSE /\ BackToMenu("Invalid username or password.")
            /\ UNCHANGED <<current_user, loopRet>>
    /\ UNCHANGED <<raceVars, todoVars, authVars, entered_username, flow>>

\* faulty variant of LoginPassword: the password is not compared
LoginPassword_username_only(line) ==
    /\ pc = "login_password"
    /\ typed' = line
    /\ entered_password' = strip(line)
    /\ IF entered_password' = <<>>
       THEN /\ BackToMenu("Password cannot be empty.")
            /\ UNCHANGED <<current_user, loopRet, calls>>
       ELSE /\ calls' = Append(calls, "authenticate")
            /\ IF user_exists(entered_username)
               THEN /\ current_user' = entered_username
                    /\ output' = "Welcome"
                    /\ handlerRet' = "True"
                    /\ loopRet' = "True"
                    /\ pc' = "main_loop"
               ELSE /\ BackToMenu("Invalid username or password.")
                    /\ UNCHANGED <<current_user, loopRet>>
    /\ UNCHANGED <<raceVars, todoVars, authVars, entered_username, flow>>

\* handle_login, lines 127-139, and run_pre_login_loop's return True
LoginPassword(line) ==
    /\ pc = "login_password"
    /\ typed' = line
    /\ entered_password' = strip(line)
    /\ IF entered_password' = <<>>
       THEN /\ BackToMenu("Password cannot be empty.")
            /\ UNCHANGED <<current_user, loopRet, calls>>
       ELSE /\ calls' = Append(calls, "authenticate")
            /\ IF authenticate(entered_username, entered_password')
               THEN /\ current_user' = entered_username
                    /\ output' = "Welcome"
                    /\ handlerRet' = "True"
                    /\ loopRet' = "True"
                    /\ pc' = "main_loop"
               ELSE /\ BackToMenu("Invalid username or password.")
                    /\ UNCHANGED <<current_user, loopRet>>
    /\ UNCHANGED <<raceVars, todoVars, authVars, entered_username, flow>>

\* run(): run_main_loop prints its two lines and the process ends
RunMainLoop ==
    /\ pc = "main_loop"
    /\ output' = "Main application loop"
    /\ pc' = "terminated"
    /\ UNCHANGED <<raceVars, todoVars, authVars, current_user, entered_username,
                   entered_password, handlerRet, loopRet, flow, calls, typed>>

\* handle_signup, lines 148-158
SignupUsername(line) ==
    /\ pc = "signup_username"
    /\ typed' = line
    /\ entered_username' = strip(line)
    /\ IF entered_username' = <<>>
       THEN /\ BackToMenu("Username cannot be empty.")
            /\ UNCHANGED calls
       ELSE /\ calls' = Append(calls, "user_exists")
            /\ IF user_exists(entered_username')
               THEN BackToMenu("Username already exists. Please choose a different one.")
               ELSE /\ pc' = "signup_password"
                    /\ UNCHANGED <<output, handlerRet>>
    /\ UNCHANGED <<raceVars, todoVars, authVars, current_user, entered_password, loopRet, flow>>

\* handle_signup, lines 158-164
SignupPassword(line) ==
    /\ pc = "signup_password"
    /\ typed' = line
    /\ entered_password' = strip(line)
    /\ IF entered_password' = <<>>
       THEN BackToMenu("Password cannot be empty.")
       ELSE /\ pc' = "signup_confirm"
            /\ UNCHANGED <<output, handlerRet>>
    /\ UNCHANGED <<raceVars, todoVars, authVars, current_user, entered_username,
                   loopRet, flow, calls>>

\* faulty variant of SignupConfirm: a successful signup logs the new user in
SignupConfirm_auto_login(line) ==
    /\ pc = "signup_confirm"
    /\ typed' = line
    /\ LET confirm_password == strip(line)
       IN  IF entered_password # confirm_password
           THEN /\ BackToMenu("Passwords do not match.")
                /\ UNCHANGED <<doc, registered, calls, current_user, loopRet>>
           ELSE LET r == register_user(entered_username, entered_password)
                IN  /\ Len(r.users) <= MaxUsers
                    /\ calls' = Append(calls, "register_user")
                    /\ doc' = IF r.saved THEN save_users(r.users) ELSE doc
                    /\ registered' =
                          IF r.ret THEN registered \cup {entered_username}
                                   ELSE registered
                    /\ IF r.ret
                       THEN /\ current_user' = entered_username
                            /\ output' = "Account created successfully!"
                            /\ handlerRet' = "True"
                            /\ loopRet' = "True"
                            /\ pc' = "main_loop"
                       ELSE /\ BackToMenu("Sign up failed. Please try again.")
                            /\ UNCHANGED <<current_user, loopRet>>
    /\ UNCHANGED <<raceVars, todoVars, fileExists, am, last, entered_username,
                   entered_password, flow>>

\* handle_signup, lines 164-175
SignupConfirm(line) ==
    /\ pc = "signup_confirm"
    /\ typed' = line
    /\ LET confirm_password == strip(line)
       IN  IF entered_password # confirm_password
           THEN /\ BackToMenu("Passwords do not match.")
                /\ UNCHANGED <<doc, registered, calls>>
           ELSE LET r == register_user(entered_username, entered_password)
                IN  /\ Len(r.users) <= MaxUsers
                    /\ calls' = Append(calls, "register_user")
                    /\ doc' = IF r.saved THEN save_users(r.users) ELSE doc
                    /\ registered' =
                          IF r.ret THEN registered \cup {entered_username}
                                   ELSE registered
                    /\ IF r.ret
                       THEN BackToMenu("Account created successfully! You can now log in.")
                       ELSE BackToMenu("Sign up failed. Please try again.")
    /\ UNCHANGED <<raceVars, todoVars, fileExists, am, last, current_user,
                   entered_username, entered_password, loopRet, flow>>

ShellNext ==
    \/ Main
    \/ \E line \in MenuLines : MenuChoice(line)
    \/ \E line \in UsernameLines : LoginUsername(line)
    \/ \E line \in PasswordLines : LoginPassword(line)
    \/ RunMainLoop
    \/ \E line \in UsernameLines : SignupUsername(line)
    \/ \E line \in PasswordLines : SignupPassword(line)
    \/ \E line \in PasswordLines : SignupConfirm(line)

----------------------------------------------------------------------------
(* Two processes, each calling register_user once on the same users.json.   *)
(* Nothing locks the file: the steps of one call (the read inside           *)
(* user_exists, the second _load_users, the _save_users write) are each     *)
(* atomic and interleave with the other process's steps.                    *)

Procs == {1, 2}

RaceIdle ==
    [pc |-> "idle", username |-> NoArg, password |-> NoArg, users |-> <<>>,
     ret |-> "none"]

\* a process enters register_user(username, password)
RaceCall(self, username, password) ==
    /\ am = "ready"
    /\ race[self].pc = "idle"
    /\ race' = [race EXCEPT ![self].pc = "user_exists",
                            ![self].username = username,
                            ![self].password = password]
    /\ UNCHANGED <<saves, authVars, shellVars, todoVars>>

\* line 83-84: if self.user_exists(username): return False
RaceUserExists(self) ==
    /\ race[self].pc = "user_exists"
    /\ race' = IF user_exists(race[self].username)
               THEN [race EXCEPT ![self].pc = "done", ![self].ret = "False"]
               ELSE [race EXCEPT ![self].pc = "load_users"]
    /\ UNCHANGED <<saves, authVars, shellVars, todoVars>>

\* lines 86-87: users = self._load_users(); users.append({...})
RaceLoadUsers(self) ==
    /\ race[self].pc = "load_users"
    /\ race' = [race EXCEPT
                  ![self].pc = "save_users",
                  ![self].users = Append(load_users,
                                         UserRecord(race[self].username,
                                                    race[self].password))]
    /\ UNCHANGED <<saves, authVars, shellVars, todoVars>>

\* lines 88-89: self._save_users(users); return True
RaceSaveUsers(self) ==
    /\ race[self].pc = "save_users"
    /\ doc' = save_users(race[self].users)
    /\ race' = [race EXCEPT ![self].pc = "done", ![self].ret = "True"]
    /\ saves' = Append(saves,
                       [proc |-> self,
                        stale |-> doc # SubSeq(race[self].users, 1,
                                               Len(race[self].users) - 1)])
    /\ UNCHANGED <<fileExists, am, last, registered, shellVars, todoVars>>

RaceNext ==
    \/ \E self \in Procs, u \in Usernames, p \in Passwords : RaceCall(self, u, p)
    \/ \E self \in Procs : RaceUserExists(self)
    \/ \E self \in Procs : RaceLoadUsers(self)
    \/ \E self \in Procs : RaceSaveUsers(self)

----------------------------------------------------------------------------
(* TodoItem (models.py).  An Enum member is an object of its class; its     *)
(* .value is the string the class body assigns to it.  A dict is a function *)
(* whose DOMAIN is the set of keys it holds.                                *)

PriorityMembers ==
    { [enum |-> "Priority", name |-> n] : n \in {"HIGH", "MID", "LOW"} }

StatusMembers ==
    { [enum |-> "Status", name |-> n] : n \in {"PENDING", "COMPLETED"} }

\* member.value, as assigned in the class bodies
EnumValue(member) ==
    CASE member = [enum |-> "Priority", name |-> "HIGH"] -> "HIGH"
      [] member = [enum |-> "Priority", name |-> "MID"] -> "MID"
      [] member = [enum |-> "Priority", name |-> "LOW"] -> "LOW"
      [] member = [enum |-> "Status", name |-> "PENDING"] -> "PENDING"
      [] member = [enum |-> "Status", name |-> "COMPLETED"] -> "COMPLETED"

\* Enum lookup by value, cls(value): <<member>>, or <<>> where Python raises ValueError
EnumLookup(members, value) ==
    IF \E m \in members : EnumValue(m) = value
    THEN << CHOOSE m \in members : EnumValue(m) = value >>
    ELSE <<>>

\* faulty variant of Priority: an unrecognized value falls back to LOW
Priority_default_low(value) ==
    IF EnumLookup(PriorityMembers, value) = <<>>
    THEN << [enum |-> "Priority", name |-> "LOW"] >>
    ELSE EnumLookup(PriorityMembers, value)

\* Priority(value)
Priority(value) == EnumLookup(PriorityMembers, value)

\* Status(value)
Status(value) == EnumLookup(StatusMembers, value)

TodoKeys ==
    { "id", "title", "details", "priority", "status", "owner", "created_at",
      "updated_at" }

\* faulty variant of to_dict: "updated_at" is filled from created_at
to_dict_updated_from_created(item) ==
    [k \in TodoKeys |->
        CASE k = "id" -> item.id
          [] k = "title" -> item.title
          [] k = "details" -> item.details
          [] k = "priority" -> EnumValue(item.priority)
          [] k = "status" -> EnumValue(item.status)
          [] k = "owner" -> item.owner
          [] k = "created_at" -> item.created_at
          [] k = "updated_at" -> item.created_at]

\* TodoItem.to_dict
to_dict(item) ==
    [k \in TodoKeys |->
        CASE k = "id" -> item.id
          [] k = "title" -> item.title
          [] k = "details" -> item.details
          [] k = "priority" -> EnumValue(item.priority)
          [] k = "status" -> EnumValue(item.status)
          [] k = "owner" -> item.owner
          [] k = "created_at" -> item.created_at
          [] k = "updated_at" -> item.updated_at]

\* the order in which from_dict evaluates the arguments of cls(...)
FromDictOrder ==
    << "id", "title", "details", "priority", "status", "owner", "created_at",
       "updated_at" >>

\* what evaluating the argument for key k raises: "none", "KeyError" or "ValueError"
ArgRaises(data, k) ==
    IF k \notin DOMAIN data THEN "KeyError"
    ELSE IF k = "priority" /\ Priority(data[k]) = <<>> THEN "ValueError"
    ELSE IF k = "status" /\ Status(data[k]) = <<>> THEN "ValueError"
    ELSE "none"

\* TodoItem.from_dict: the first argument that raises ends the call with that
\* exception and no item; otherwise the item built from the eight arguments
from_dict(data) ==
    LET bad == { i \in 1..Len(FromDictOrder) :
                    ArgRaises(data, FromDictOrder[i]) # "none" }
    IN  IF bad # {}
        THEN LET first == CHOOSE i \in bad : \A j \in bad : i <= j
             IN  [raised |-> ArgRaises(data, FromDictOrder[first]),
                  key |-> FromDictOrder[first],
                  item |-> <<>>]
        ELSE [raised |-> "none",
              key |-> "",
              item |-> << [id |-> data["id"],
                           title |-> data["title"],
                           details |-> data["details"],
                           priority |-> Priority(data["priority"])[1],
                           status |-> Status(data["status"])[1],
                           owner |-> data["owner"],
                           created_at |-> data["created_at"],
                           updated_at |-> data["updated_at"]] >>]

\* the TodoItems the model constructs
TodoItems ==
    [id : {"test-789", ""},
     title : {"Buy milk", ""},
     details : {"", "Testing serialization"},
     priority : PriorityMembers,
     status : StatusMembers,
     owner : {"alice"},
     created_at : {"2026-01-12T08:00:00"},
     updated_at : {"2026-01-12T08:00:00", "2026-01-12T09:00:00"}]

\* dictionaries as a JSON document may hold them: a serialized item, possibly with
\* a key missing, with an unrecognized priority or with an unrecognized status
BadPriorities == { "URGENT", "high", "" }
BadStatuses == { "DONE", "pending" }

Without(data, k) == [x \in DOMAIN data \ {k} |-> data[x]]

TodoDicts ==
    LET good == { to_dict(x) :
                    x \in { y \in TodoItems : y.title = "Buy milk" /\ y.details = "" } }
        pri == { [d EXCEPT !["priority"] = v] : d \in good, v \in BadPriorities }
        sta == { [d EXCEPT !["status"] = v] : d \in good \cup pri, v \in BadStatuses }
        all == good \cup pri \cup sta
    IN  all \cup { Without(d, k) : d \in all, k \in TodoKeys }

\* TodoItem(...) with every field given
TodoConstruct(item) ==
    /\ todoItem' = <<item>>
    /\ todoData' = <<>>
    /\ todoSource' = "none"
    /\ todoResult' = <<>>
    /\ UNCHANGED <<authVars, shellVars, raceVars>>

\* data = item.to_dict()
TodoToDict ==
    /\ todoItem # <<>>
    /\ todoData' = << to_dict(todoItem[1]) >>
    /\ todoSource' = "to_dict"
    /\ todoResult' = <<>>
    /\ UNCHANGED <<todoItem, authVars, shellVars, raceVars>>

\* a dictionary arrives from outside (a parsed JSON object)
TodoReceive(data) ==
    /\ todoItem' = <<>>
    /\ todoData' = <<data>>
    /\ todoSource' = "external"
    /\ todoResult' = <<>>
    /\ UNCHANGED <<authVars, shellVars, raceVars>>

\* TodoItem.from_dict(data)
TodoFromDict ==
    /\ todoData # <<>>
    /\ todoResult' = << from_dict(todoData[1]) >>
    /\ UNCHANGED <<todoItem, todoData, todoSource, authVars, shellVars, raceVars>>

TodoNext ==
    \/ \E item \in TodoItems : TodoConstruct(item)
    \/ TodoToDict
    \/ \E data \in TodoDicts : TodoReceive(data)
    \/ TodoFromDict

AuthIdle ==
    [op |-> "none", username |-> NoArg, password |-> NoArg,
     ret |-> FALSE, before |-> <<>>, existed |-> FALSE, known |-> FALSE]

ShellIdle ==
    /\ pc = "off"
    /\ current_user = None
    /\ entered_username = None
    /\ entered_password = None
    /\ output = ""
    /\ handlerRet = "none"
    /\ loopRet = "running"
    /\ flow = "none"
    /\ calls = <<>>
    /\ typed = None

TodoIdle ==
    /\ todoItem = <<>>
    /\ todoData = <<>>
    /\ todoSource = "none"
    /\ todoResult = <<>>

Init ==
    /\ ShellIdle
    /\ TodoIdle
    /\ race = [self \in Procs |-> RaceIdle]
    /\ saves = <<>>
    /\ fileExists = FALSE
    /\ doc = <<>>
    /\ am = "none"
    /\ last = AuthIdle
    /\ registered = {}

Next ==
    \/ Construct
    \/ \E u \in Usernames : UserExists(u)
    \/ \E u \in Usernames, p \in Passwords : Authenticate(u, p)
    \/ \E u \in Usernames, p \in Passwords : RegisterUser(u, p)

Spec == Init /\ [][Next]_vars

\* both processes have built their AuthManager on a fresh users.json
RaceInit ==
    /\ ShellIdle
    /\ TodoIdle
    /\ race = [self \in Procs |-> RaceIdle]
    /\ saves = <<>>
    /\ fileExists = TRUE
    /\ doc = <<>>
    /\ am = "ready"
    /\ last = AuthIdle
    /\ registered = {}

SpecRace == RaceInit /\ [][RaceNext]_vars

\* the TodoItem model on its own: items are built, serialized and parsed
SpecTodo == Init /\ [][TodoNext]_vars

\* the program as it is run: main() and the user's input lines
SpecShell == Init /\ [][ShellNext]_vars

----------------------------------------------------------------------------
(* Properties *)

\* the records of a list, as a set
Records(users) == { users[i] : i \in 1..Len(users) }

\* how many records of a list carry this username
CountOf(users, name) == Cardinality({ i \in 1..Len(users) : users[i].username = name })

IsPrefix(s, t) == Len(s) <= Len(t) /\ SubSeq(t, 1, Len(s)) = s

\* C1: used by a single process from an empty store, the document never holds
\* two records with the same username (compared exactly, case-sensitively).
C1_UniqueUsernames ==
    \A i, j \in 1..Len(doc) : doc[i].username = doc[j].username => i = j

\* a duplicate registration was attempted on a store holding both "a" and "A"
C1_DuplicateAttempted ==
    /\ last.op = "register_user"
    /\ last.ret = FALSE
    /\ \E i, j \in 1..Len(doc) : doc[i].username = <<"a">> /\ doc[j].username = <<"A">>

\* C2: register_user of a username with no record returns True and appends exactly
\* that one record at the end; from then on user_exists of it returns True, and
\* another register_user of it returns False with still one record for it.
C2_RegisterThenExists ==
    /\ (last.op = "register_user" /\ CountOf(last.before, last.username) = 0) =>
            /\ last.ret = TRUE
            /\ doc = Append(last.before, UserRecord(last.username, last.password))
    /\ (last.op = "user_exists" /\ last.known) => last.ret = TRUE
    /\ (last.op = "register_user" /\ last.known) =>
            /\ last.ret = FALSE
            /\ CountOf(doc, last.username) = 1

\* a username registered earlier, behind another record, was registered again
C2_SecondRegister ==
    /\ last.op = "register_user"
    /\ last.known
    /\ Len(doc) >= 2
    /\ doc[1].username # last.username
    /\ \E u \in registered \ {last.username} : TRUE

\* C3: register_user of a username that already has a record returns False and
\* leaves the document exactly as it was, the old password included.
C3_DuplicateRegisterNoChange ==
    (last.op = "register_user" /\ CountOf(last.before, last.username) > 0) =>
        /\ last.ret = FALSE
        /\ doc = last.before

\* register_user was called for an existing username with a different password
C3_DuplicateWithOtherPassword ==
    /\ last.op = "register_user"
    /\ \E i \in 1..Len(last.before) :
            /\ last.before[i].username = last.username
            /\ last.before[i].password # last.password

\* C4: authenticate returns True exactly when the document holds a record equal
\* to (username, password) in both fields, and it leaves the document alone.
C4_AuthenticateIffRecord ==
    last.op = "authenticate" =>
        /\ last.ret = (UserRecord(last.username, last.password) \in Records(last.before))
        /\ doc = last.before

\* authenticate("A", "p") was refused while the store holds ("a", "p") and no "A"
C4_CaseDifferenceRefused ==
    /\ last.op = "authenticate"
    /\ last.username = <<"A">>
    /\ last.password = <<"p">>
    /\ UserRecord(<<"a">>, <<"p">>) \in Records(doc)
    /\ CountOf(doc, <<"A">>) = 0
    /\ last.ret = FALSE

\* C5: from_dict(x.to_dict()) raises nothing and returns an item equal to x in
\* all eight fields.
C5_RoundTrip ==
    (todoSource = "to_dict" /\ todoResult # <<>>) =>
        /\ todoResult[1].raised = "none"
        /\ todoResult[1].item = todoItem

\* a LOW / COMPLETED item whose two timestamps differ went through the round trip
C5_RoundTripDone ==
    /\ todoSource = "to_dict"
    /\ todoResult # <<>>
    /\ todoItem[1].priority.name = "LOW"
    /\ todoItem[1].status.name = "COMPLETED"
    /\ todoItem[1].created_at # todoItem[1].updated_at

\* the exceptions of the code that make up the error category ValidationError
ValidationError == { "ValueError", "KeyError" }

\* a dictionary that lacks a required key or carries an unrecognized enum tag
Malformed(data) ==
    \/ ~(TodoKeys \subseteq DOMAIN data)
    \/ "priority" \in DOMAIN data /\ data["priority"] \notin {"HIGH", "MID", "LOW"}
    \/ "status" \in DOMAIN data /\ data["status"] \notin {"PENDING", "COMPLETED"}

\* C6: from_dict of a dictionary whose priority or status is not a recognized tag,
\* or that lacks one of the eight keys, raises and returns no item: no default is
\* put in place of the bad field.
C6_FromDictRejects ==
    (todoResult # <<>> /\ Malformed(todoData[1])) =>
        /\ todoResult[1].raised \in ValidationError
        /\ todoResult[1].item = <<>>

\* from_dict was given a complete dictionary with priority "URGENT"
C6_UrgentRejected ==
    /\ todoResult # <<>>
    /\ DOMAIN todoData[1] = TodoKeys
    /\ todoData[1]["priority"] = "URGENT"
    /\ todoData[1]["status"] = "PENDING"

BothReturnedTrue ==
    /\ \A self \in Procs : race[self].pc = "done" /\ race[self].ret = "True"
    /\ race[1].username # race[2].username

RaceRecord(self) == UserRecord(race[self].username, race[self].password)

\* C7: two unlocked register_user calls for different usernames can both return
\* True and leave only one of the two records.  When both have returned True the
\* later writer's record is in the document, and the earlier writer's record is in
\* it exactly when the later writer wrote a document it had read after the earlier
\* write; written over a stale read, the earlier record is lost.
C7_LostExactlyOnStaleWrite ==
    BothReturnedTrue =>
        /\ Len(saves) = 2
        /\ RaceRecord(saves[2].proc) \in Records(doc)
        /\ (RaceRecord(saves[1].proc) \in Records(doc)) = ~saves[2].stale

\* both calls returned True and the document holds one record
C7_LostUpdate ==
    /\ BothReturnedTrue
    /\ Len(doc) = 1

\* the prompts at which a username or a password is typed
UsernamePrompts == { "login_username", "signup_username" }
PasswordPrompts == { "login_password", "signup_password" }

\* C8 as stated: an empty username or password, in either flow, is rejected
\* before any AuthManager operation has been invoked in that flow, back at the
\* menu with the store and current_user unchanged.
C8_RejectedBeforeAnyAuthCall ==
    [][ (pc \in UsernamePrompts \cup PasswordPrompts /\ strip(typed') = <<>>) =>
            /\ calls' = <<>>
            /\ pc' = "menu"
            /\ handlerRet' = "False"
            /\ doc' = doc
            /\ current_user' = current_user ]_vars

\* C8, amended: an empty username in either flow and an empty password in the
\* login flow are rejected before any AuthManager operation is invoked in that
\* flow; an empty password in the signup flow is rejected after user_exists (and
\* nothing else) has been invoked, before register_user.  In every case the shell
\* is back at the menu with the store and current_user unchanged.
C8_RejectedBeforeAuthenticateOrRegister ==
    [][ (pc \in UsernamePrompts \cup PasswordPrompts /\ strip(typed') = <<>>) =>
            /\ calls' = IF pc = "signup_password" THEN <<"user_exists">> ELSE <<>>
            /\ pc' = "menu"
            /\ handlerRet' = "False"
            /\ doc' = doc
            /\ current_user' = current_user ]_vars

\* a whitespace-only password was rejected in the signup flow, after user_exists
C8_EmptySignupPasswordRejected ==
    /\ flow = "signup"
    /\ typed = <<" ", " ">>
    /\ output = "Password cannot be empty."
    /\ calls = <<"user_exists">>
    /\ pc = "menu"
    /\ Len(doc) >= 1

C10_AppendOnly ==
    [][ IsPrefix(doc, doc') ]_vars

\* an AuthManager was constructed on a document that already held two records
C10_ConstructedOnExisting ==
    /\ last.op = "construct"
    /\ last.existed
    /\ Len(last.before) >= 2
    /\ doc = last.before

\* the states in which run_pre_login_loop is waiting for a line
PreLoginPrompts ==
    { "menu", "login_username", "login_password", "signup_username",
      "signup_password", "signup_confirm" }

\* C11: current_user is None, or a non-empty username whose record, with the
\* password entered at login, is in the store; run_pre_login_loop has returned
\* True only then, has returned False only on menu choice 3, and every other line
\* typed before login (a failed login, any signup outcome, an unrecognized menu
\* choice) leaves the shell logged out and the loop running.
C11_LoggedInOnlyByAuthenticate ==
    /\ [] /\ current_user = None \/
                /\ current_user # <<>>
                /\ UserRecord(current_user, entered_password) \in Records(doc)
          /\ (loopRet = "True") = (current_user # None)
          /\ loopRet = "False" => strip(typed) = <<"3">> /\ pc = "terminated"
    /\ [][ LET loginSucceeds ==
                    /\ pc = "login_password"
                    /\ UserRecord(entered_username, strip(typed')) \in Records(doc)
               exitChosen == pc = "menu" /\ strip(typed') = <<"3">>
           IN  /\ (pc \in PreLoginPrompts /\ ~loginSucceeds /\ ~exitChosen) =>
                      /\ current_user' = None
                      /\ loopRet' = "running"
                      /\ pc' \in PreLoginPrompts
               /\ (pc \in PreLoginPrompts /\ loginSucceeds) =>
                      /\ current_user' = entered_username
                      /\ loopRet' = "True"
               /\ (pc \in PreLoginPrompts /\ exitChosen) =>
                      /\ current_user' = None
                      /\ loopRet' = "False" ]_vars

\* the shell is logged in, on a store that holds another user's record as well
C11_LoggedIn ==
    /\ current_user # None
    /\ loopRet = "True"
    /\ pc = "main_loop"
    /\ Len(doc) >= 2
    /\ doc[1].username # current_user

====
